---- MODULE Spec2Model ----
(***************************************************************************)
(* HeyNeighbor data service: the account verification state machine        *)
(* (signup / login / verifyEmailCode / resendVerification) and the         *)
(* cascading item deletion transaction (deleteItem), modelled from the     *)
(* Express handlers and the PostgreSQL schema.                             *)
(*                                                                         *)
(* Every request runs on a process slot p.  A handler is a chain of        *)
(* promise callbacks; each storage round-trip (one SQL statement) is one   *)
(* atomic step, and handlers interleave freely between their steps.        *)
(***************************************************************************)
EXTENDS Integers, Sequences, FiniteSets, TLC

\* ------------------------------------------------------------------ bounds
Procs == 1..2          \* concurrent request slots (slots are reused)
MaxTime == 30          \* the server clock stops advancing here
ClockStep == 15        \* minutes per clock tick
RandDenom == 900000    \* Math.random() is modelled as r / RandDenom, r \in 0..RandDenom-1
RandSamples == {0, 899999}

\* ------------------------------------------------------- program constants
TokenTTL == 15         \* INTERVAL '15 minutes'
CodeBase == 100000
CodeSpan == 900000
CalvinSuffix == <<"@calvin.edu">>

\* ------------------------------------------------------------ SQL values
\* A nullable column holds <<>> (NULL) or <<v>>.
Null == <<>>
Some(v) == <<v>>
\* SQL "col = v": never true of NULL.
SqlEq(col, v) == col # Null /\ col[1] = v
\* (variant of SqlGt that admits the boundary: "col >= v")
SqlGe(col, v) == col # Null /\ col[1] >= v
\* SQL "col > v": never true of NULL.
SqlGt(col, v) == col # Null /\ col[1] > v

\* Strings the handlers inspect are sequences of symbols; "" is <<>>.
endsWith(s, suffix) ==
  /\ Len(s) >= Len(suffix)
  /\ SubSeq(s, Len(s) - Len(suffix) + 1, Len(s)) = suffix

RECURSIVE toString(_)
toString(n) == IF n < 10 THEN <<n>> ELSE Append(toString(n \div 10), n % 10)

\* <<q, m>> with a * b = q * d + m and 0 <= m < d, computed without leaving 32 bits.
RECURSIVE MulDivMod(_, _, _)
MulDivMod(a, b, d) ==
  IF b = 0 THEN <<0, 0>>
  ELSE LET h == MulDivMod(a, b \div 2, d)
           m == 2 * h[2] + (IF b % 2 = 1 THEN a % d ELSE 0)
       IN <<2 * h[1] + (IF b % 2 = 1 THEN a \div d ELSE 0) + m \div d, m % d>>

\* (variant of generateVerificationCode without the 100000 offset)
generateVerificationCodeUnbased(r) ==
  toString(MulDivMod(r, CodeSpan, RandDenom)[1])

\* Math.floor(100000 + Math.random() * 900000).toString(), Math.random() = r / RandDenom
generateVerificationCode(r) ==
  toString(CodeBase + MulDivMod(r, CodeSpan, RandDenom)[1])

\* ----------------------------------------------------------------- inputs
EmailInputs == { <<>>, <<"a", "@calvin.edu">>, <<"b", "@gmail.com">> }
\* login, verifyEmailCode and resendVerification are asked about the address that signs up
\* (unknown to the store until its signup inserts it) or about none.
LookupEmails == { <<>>, <<"a", "@calvin.edu">> }
NameInputs == { <<>>, <<"A">> }
CodeInputs == { <<>> } \cup { generateVerificationCode(r) : r \in RandSamples }

VARIABLES
  app_user,   \* table app_user: sequence of rows, user_id = index
  now,        \* the database server clock NOW(), in minutes
  pc,         \* pc[p]: position of the request running on slot p
  req,        \* req[p]: the request's inputs and the handler's local variables
  resp,       \* resp[p]: the response sent for the request (status "none" until sent)
  superseded, \* history: superseded[user_id] = codes issued for the account and later overwritten by a reissue
  concurrent, \* history: the pairs {p, q} of slots whose current (or last) requests overlapped in time
  item,             \* table item: the item_ids of its committed rows
  borrowingrequest, \* table borrowingrequest: committed rows [request_id, item_id]
  borrowinghistory, \* table borrowinghistory: the request_ids of its committed rows
  messages,         \* table messages: committed rows [message_id, item_id], item_id nullable
  serial,           \* the SERIAL sequences: last request_id and message_id handed out
  tx,               \* tx[p]: the rows deleted so far, and not yet committed, by p's transaction
  VerificationCode  \* table VerificationCode of the Azure Functions layout: rows in insertion order

authVars == <<app_user, now, superseded>>
itemVars == <<item, borrowingrequest, borrowinghistory, messages, serial, tx>>
codeVars == <<VerificationCode>>
vars == <<app_user, now, pc, req, resp, superseded, concurrent,
          item, borrowingrequest, borrowinghistory, messages, serial, tx, VerificationCode>>

\* The rows inserted by the schema script: name and profile_picture only.
SeedUsers ==
  [i \in 1..3 |-> [email |-> Null, verification_token |-> Null,
                   token_expires_at |-> Null, is_verified |-> FALSE]]

\* op, email, code: the request; user_id, user_token: the columns of the row a SELECT bound to
\* `user`; verificationCode: the handler's generated code.
\* item_id: deleteItem's req.params.id; requestIds: the request_ids its SELECT returned.
NoReq == [op |-> "none", email |-> <<>>, code |-> <<>>, user_id |-> 0, user_token |-> Null,
          verificationCode |-> <<>>, item_id |-> 0, requestIds |-> {}, password |-> <<>>,
          expiresAt |-> 0, random |-> 0]
NoResp == [status |-> "none", email |-> <<>>]
Reply(s) == [status |-> s, email |-> <<>>]

\* The rows inserted by the schema script into item, borrowingrequest, borrowinghistory
\* and messages.
SeedItems == {1, 2, 3}
SeedRequests == { [request_id |-> 1, item_id |-> 1], [request_id |-> 2, item_id |-> 2] }
SeedHistory == {1, 2}
SeedMessages == { [message_id |-> 1, item_id |-> Some(1)],
                  [message_id |-> 2, item_id |-> Some(1)],
                  [message_id |-> 3, item_id |-> Some(2)] }

NoTx == [history |-> {}, requests |-> {}, messages |-> {}, item |-> {}]

Init ==
  /\ item = SeedItems
  /\ borrowingrequest = SeedRequests
  /\ borrowinghistory = SeedHistory
  /\ messages = SeedMessages
  /\ serial = [request |-> 2, message |-> 3]
  /\ tx = [p \in Procs |-> NoTx]
  /\ app_user = SeedUsers
  /\ now = 0
  /\ pc = [p \in Procs |-> "idle"]
  /\ req = [p \in Procs |-> NoReq]
  /\ resp = [p \in Procs |-> NoResp]
  /\ superseded = [i \in 1..3 |-> {}]
  /\ concurrent = {}
  /\ VerificationCode = <<>>

Free(p) == pc[p] \in {"idle", "done"}
InFlight(p) == ~Free(p)
\* The requests on slots p and q overlapped in time.
Overlapped(p, q) == p # q /\ {p, q} \in concurrent

\* db.oneOrNone("SELECT * FROM app_user WHERE email = $[email]"): the user_ids that match
UsersByEmail(email) == { i \in 1..Len(app_user) : SqlEq(app_user[i].email, email) }

Finish(p, r) ==
  /\ pc' = [pc EXCEPT ![p] = "done"]
  /\ resp' = [resp EXCEPT ![p] = r]

\* A handler that answers before touching storage.
Reject(p, r, status) ==
  /\ req' = [req EXCEPT ![p] = [NoReq EXCEPT !.op = r.op]]
  /\ concurrent' = { pr \in concurrent : p \notin pr }
  /\ pc' = [pc EXCEPT ![p] = "done"]
  /\ resp' = [resp EXCEPT ![p] = Reply(status)]

\* A handler that answers before touching storage; the request stays on record.
Refuse(p, r, status) ==
  /\ req' = [req EXCEPT ![p] = r]
  /\ concurrent' = { pr \in concurrent : p \notin pr }
  /\ pc' = [pc EXCEPT ![p] = "done"]
  /\ resp' = [resp EXCEPT ![p] = Reply(status)]

\* A handler that issues its first query.
Query(p, r, at) ==
  /\ req' = [req EXCEPT ![p] = r]
  /\ concurrent' = { pr \in concurrent : p \notin pr }
                     \cup { {p, q} : q \in { o \in Procs \ {p} : InFlight(o) } }
  /\ pc' = [pc EXCEPT ![p] = at]
  /\ resp' = [resp EXCEPT ![p] = NoResp]

\* ------------------------------------------------------------------ signup
signup(p) ==
  /\ Free(p)
  /\ \E email \in EmailInputs, name \in NameInputs :
       LET rq == [NoReq EXCEPT !.op = "signup", !.email = email] IN
       IF email = <<>> \/ name = <<>>
         THEN Reject(p, rq, "bad_request")
       ELSE IF ~endsWith(email, CalvinSuffix)
         THEN Refuse(p, rq, "domain_rejected")
       ELSE \E r \in RandSamples :
              Query(p, [rq EXCEPT !.verificationCode = generateVerificationCode(r)],
                    "signup_select")
  /\ UNCHANGED <<app_user, now, superseded>>
  /\ UNCHANGED <<itemVars, codeVars>>

\* (variant of signupSelect that skips the existence check)
signupSelectBlind(p) ==
  /\ pc[p] = "signup_select"
  /\ pc' = [pc EXCEPT ![p] = "signup_insert"]
  /\ UNCHANGED <<app_user, now, req, resp, superseded, concurrent>>
  /\ UNCHANGED <<itemVars, codeVars>>

signupSelect(p) ==
  /\ pc[p] = "signup_select"
  /\ IF UsersByEmail(req[p].email) # {}
       THEN Finish(p, Reply("already_registered"))
       ELSE /\ pc' = [pc EXCEPT ![p] = "signup_insert"]
            /\ UNCHANGED resp
  /\ UNCHANGED <<app_user, now, req, superseded, concurrent>>
  /\ UNCHANGED <<itemVars, codeVars>>

\* INSERT INTO app_user (...) VALUES (..., false, NOW() + INTERVAL '15 minutes');
\* email is UNIQUE, a duplicate makes the statement fail and the error goes to next().
signupInsert(p) ==
  /\ pc[p] = "signup_insert"
  /\ IF UsersByEmail(req[p].email) # {}
       THEN /\ Finish(p, Reply("server_error"))
            /\ UNCHANGED <<app_user, superseded>>
       ELSE /\ app_user' = Append(app_user,
                 [email |-> Some(req[p].email),
                  verification_token |-> Some(req[p].verificationCode),
                  token_expires_at |-> Some(now + TokenTTL),
                  is_verified |-> FALSE])
            /\ superseded' = [i \in 1..(Len(app_user) + 1) |->
                                IF i <= Len(app_user) THEN superseded[i] ELSE {}]
            /\ pc' = [pc EXCEPT ![p] = "signup_send"]
            /\ UNCHANGED resp
  /\ UNCHANGED <<now, req, concurrent>>
  /\ UNCHANGED <<itemVars, codeVars>>

\* (variant of signupSend that removes the inserted row when the transport throws)
signupSendUndo(p) ==
  /\ pc[p] = "signup_send"
  /\ \E delivered \in BOOLEAN :
       /\ Finish(p, Reply(IF delivered THEN "pending_verification" ELSE "notification_failed"))
       /\ app_user' = IF delivered THEN app_user
                      ELSE SelectSeq(app_user, LAMBDA row : row.email # Some(req[p].email))
  /\ superseded' = [i \in 1..Len(app_user') |-> superseded[i]]
  /\ UNCHANGED <<now, req, concurrent>>
  /\ UNCHANGED <<itemVars, codeVars>>

\* await sendVerificationEmail(...): the transport delivers or throws.
signupSend(p) ==
  /\ pc[p] = "signup_send"
  /\ \E delivered \in BOOLEAN :
       Finish(p, Reply(IF delivered THEN "pending_verification" ELSE "notification_failed"))
  /\ UNCHANGED <<app_user, now, req, superseded, concurrent>>
  /\ UNCHANGED <<itemVars, codeVars>>

\* ------------------------------------------------------------------- login
login(p) ==
  /\ Free(p)
  /\ \E email \in LookupEmails :
       LET rq == [NoReq EXCEPT !.op = "login", !.email = email] IN
       IF email = <<>>
         THEN Reject(p, rq, "bad_request")
         ELSE Query(p, rq, "login_select")
  /\ UNCHANGED <<app_user, now, superseded>>
  /\ UNCHANGED <<itemVars, codeVars>>

\* (variant of loginSelect without the is_verified gate)
loginSelectUngated(p) ==
  /\ pc[p] = "login_select"
  /\ LET found == UsersByEmail(req[p].email) IN
       IF found = {}
         THEN Finish(p, Reply("invalid_credentials"))
         ELSE \E u \in found :
                Finish(p, [status |-> "login_ok", email |-> app_user[u].email[1]])
  /\ UNCHANGED <<app_user, now, req, superseded, concurrent>>
  /\ UNCHANGED <<itemVars, codeVars>>

loginSelect(p) ==
  /\ pc[p] = "login_select"
  /\ LET found == UsersByEmail(req[p].email) IN
       IF found = {}
         THEN Finish(p, Reply("invalid_credentials"))
         ELSE \E u \in found :
                IF ~app_user[u].is_verified
                  THEN Finish(p, [status |-> "verification_required",
                                  email |-> app_user[u].email[1]])
                  ELSE Finish(p, [status |-> "login_ok", email |-> app_user[u].email[1]])
  /\ UNCHANGED <<app_user, now, req, superseded, concurrent>>
  /\ UNCHANGED <<itemVars, codeVars>>

\* --------------------------------------------------------- verifyEmailCode
verifyEmailCode(p) ==
  /\ Free(p)
  /\ \E email \in LookupEmails, code \in CodeInputs :
       LET rq == [NoReq EXCEPT !.op = "verify", !.email = email, !.code = code] IN
       IF email = <<>> \/ code = <<>>
         THEN Reject(p, rq, "bad_request")
         ELSE Query(p, rq, "verify_select")
  /\ UNCHANGED <<app_user, now, superseded>>
  /\ UNCHANGED <<itemVars, codeVars>>

\* SELECT * FROM app_user WHERE email = $[email] AND verification_token = $[code]
\*   AND token_expires_at > NOW()
\* (variant of VerifyMatch without the verification_token condition)
VerifyMatchAnyCode(email, code) ==
  { i \in 1..Len(app_user) :
      /\ SqlEq(app_user[i].email, email)
      /\ SqlGt(app_user[i].token_expires_at, now) }

VerifyMatch(email, code) ==
  { i \in 1..Len(app_user) :
      /\ SqlEq(app_user[i].email, email)
      /\ SqlEq(app_user[i].verification_token, code)
      /\ SqlGt(app_user[i].token_expires_at, now) }

\* (variant of verifySelect that answers an unknown email differently from a bad code)
verifySelectTelling(p) ==
  /\ pc[p] = "verify_select"
  /\ LET found == VerifyMatch(req[p].email, req[p].code) IN
       IF found = {}
         THEN /\ Finish(p, Reply(IF UsersByEmail(req[p].email) = {}
                                   THEN "not_found" ELSE "invalid_or_expired"))
              /\ UNCHANGED req
         ELSE \E u \in found :
                IF app_user[u].is_verified
                  THEN /\ Finish(p, Reply("already_verified"))
                       /\ UNCHANGED req
                  ELSE /\ req' = [req EXCEPT ![p].user_id = u,
                                             ![p].user_token = app_user[u].verification_token]
                       /\ pc' = [pc EXCEPT ![p] = "verify_update"]
                       /\ UNCHANGED resp
  /\ UNCHANGED <<app_user, now, superseded, concurrent>>
  /\ UNCHANGED <<itemVars, codeVars>>

\* (variant of verifySelect that clears the account's stored code on a failed attempt)
verifySelectBurning(p) ==
  /\ pc[p] = "verify_select"
  /\ LET found == VerifyMatch(req[p].email, req[p].code) IN
       IF found = {}
         THEN /\ Finish(p, Reply("invalid_or_expired"))
              /\ app_user' = [u \in 1..Len(app_user) |->
                                IF u \in UsersByEmail(req[p].email)
                                  THEN [app_user[u] EXCEPT !.verification_token = Null,
                                                           !.token_expires_at = Null]
                                  ELSE app_user[u]]
              /\ UNCHANGED req
         ELSE \E u \in found :
                IF app_user[u].is_verified
                  THEN /\ Finish(p, Reply("already_verified"))
                       /\ UNCHANGED <<req, app_user>>
                  ELSE /\ req' = [req EXCEPT ![p].user_id = u,
                                             ![p].user_token = app_user[u].verification_token]
                       /\ pc' = [pc EXCEPT ![p] = "verify_update"]
                       /\ UNCHANGED <<resp, app_user>>
  /\ UNCHANGED <<now, superseded, concurrent>>
  /\ UNCHANGED <<itemVars, codeVars>>

verifySelect(p) ==
  /\ pc[p] = "verify_select"
  /\ LET found == VerifyMatch(req[p].email, req[p].code) IN
       IF found = {}
         THEN /\ Finish(p, Reply("invalid_or_expired"))
              /\ UNCHANGED req
         ELSE \E u \in found :
                IF app_user[u].is_verified
                  THEN /\ Finish(p, Reply("already_verified"))
                       /\ UNCHANGED req
                  ELSE /\ req' = [req EXCEPT ![p].user_id = u,
                                             ![p].user_token = app_user[u].verification_token]
                       /\ pc' = [pc EXCEPT ![p] = "verify_update"]
                       /\ UNCHANGED resp
  /\ UNCHANGED <<app_user, now, superseded, concurrent>>
  /\ UNCHANGED <<itemVars, codeVars>>

\* UPDATE app_user SET is_verified = true, verification_token = NULL,
\*   token_expires_at = NULL WHERE user_id = $[user_id] RETURNING *
verifyUpdate(p) ==
  /\ pc[p] = "verify_update"
  /\ app_user' = [app_user EXCEPT ![req[p].user_id] =
                    [@ EXCEPT !.is_verified = TRUE,
                              !.verification_token = Null,
                              !.token_expires_at = Null]]
  /\ Finish(p, Reply("verified"))
  /\ UNCHANGED <<now, req, superseded, concurrent>>
  /\ UNCHANGED <<itemVars, codeVars>>

\* ------------------------------------------------------ resendVerification
resendVerification(p) ==
  /\ Free(p)
  /\ \E email \in LookupEmails :
       LET rq == [NoReq EXCEPT !.op = "resend", !.email = email] IN
       IF email = <<>>
         THEN Reject(p, rq, "bad_request")
         ELSE Query(p, rq, "resend_select")
  /\ UNCHANGED <<app_user, now, superseded>>
  /\ UNCHANGED <<itemVars, codeVars>>

\* (variant of resendSelect without the is_verified check)
resendSelectAny(p) ==
  /\ pc[p] = "resend_select"
  /\ LET found == UsersByEmail(req[p].email) IN
       IF found = {}
         THEN /\ Finish(p, Reply("not_found"))
              /\ UNCHANGED req
         ELSE \E u \in found, r \in RandSamples :
                /\ req' = [req EXCEPT ![p].user_id = u,
                                      ![p].user_token = app_user[u].verification_token,
                                      ![p].verificationCode = generateVerificationCode(r)]
                /\ pc' = [pc EXCEPT ![p] = "resend_update"]
                /\ UNCHANGED resp
  /\ UNCHANGED <<app_user, now, superseded, concurrent>>
  /\ UNCHANGED <<itemVars, codeVars>>

resendSelect(p) ==
  /\ pc[p] = "resend_select"
  /\ LET found == UsersByEmail(req[p].email) IN
       IF found = {}
         THEN /\ Finish(p, Reply("not_found"))
              /\ UNCHANGED req
         ELSE \E u \in found, r \in RandSamples :
                IF app_user[u].is_verified
                  THEN /\ Finish(p, Reply("already_verified_error"))
                       /\ UNCHANGED req
                  ELSE /\ req' = [req EXCEPT ![p].user_id = u,
                                             ![p].user_token = app_user[u].verification_token,
                                             ![p].verificationCode = generateVerificationCode(r)]
                       /\ pc' = [pc EXCEPT ![p] = "resend_update"]
                       /\ UNCHANGED resp
  /\ UNCHANGED <<app_user, now, superseded, concurrent>>
  /\ UNCHANGED <<itemVars, codeVars>>

\* (variant of resendUpdate whose SET clause leaves token_expires_at as it is)
resendUpdateKeepingExpiry(p) ==
  /\ pc[p] = "resend_update"
  /\ LET u == req[p].user_id
         old == app_user[u].verification_token IN
       /\ app_user' = [app_user EXCEPT ![u] =
                         [@ EXCEPT !.verification_token = Some(req[p].verificationCode)]]
       /\ superseded' = [superseded EXCEPT ![u] =
                           IF old = Null THEN @ ELSE @ \cup {old[1]}]
  /\ pc' = [pc EXCEPT ![p] = "resend_send"]
  /\ UNCHANGED <<now, req, resp, concurrent>>
  /\ UNCHANGED <<itemVars, codeVars>>

\* UPDATE app_user SET verification_token = $[verificationCode],
\*   token_expires_at = NOW() + INTERVAL '15 minutes' WHERE user_id = $[user_id]
resendUpdate(p) ==
  /\ pc[p] = "resend_update"
  /\ LET u == req[p].user_id
         old == app_user[u].verification_token IN
       /\ app_user' = [app_user EXCEPT ![u] =
                         [@ EXCEPT !.verification_token = Some(req[p].verificationCode),
                                   !.token_expires_at = Some(now + TokenTTL)]]
       /\ superseded' = [superseded EXCEPT ![u] =
                           IF old = Null THEN @ ELSE @ \cup {old[1]}]
  /\ pc' = [pc EXCEPT ![p] = "resend_send"]
  /\ UNCHANGED <<now, req, resp, concurrent>>
  /\ UNCHANGED <<itemVars, codeVars>>

\* await sendVerificationEmail(...): a throw reaches .catch(next).
resendSend(p) ==
  /\ pc[p] = "resend_send"
  /\ \E delivered \in BOOLEAN :
       Finish(p, Reply(IF delivered THEN "sent" ELSE "server_error"))
  /\ UNCHANGED <<app_user, now, req, superseded, concurrent>>
  /\ UNCHANGED <<itemVars, codeVars>>

Tick ==
  /\ now + ClockStep <= MaxTime
  /\ now' = now + ClockStep
  /\ UNCHANGED <<app_user, pc, req, resp, superseded, concurrent>>
  /\ UNCHANGED <<itemVars, codeVars>>

\* ============================================================ item retirement
ItemIdInputs == {1, 2, 4}
MaxRequestId == 3      \* createBorrowRequest stops at this request_id
MaxMessageId == 4      \* createMessage stops at this message_id

\* (variant of LockedBy in which a pending delete holds no row lock)
LockedByNone(p) == [history |-> {}, requests |-> {}, messages |-> {}, item |-> {}]

\* Rows another open transaction has deleted and not yet committed are row-locked: a
\* statement that needs one of them waits for that transaction to end.
LockedBy(p) ==
  [history  |-> UNION { tx[q].history  : q \in Procs \ {p} },
   requests |-> UNION { tx[q].requests : q \in Procs \ {p} },
   messages |-> UNION { tx[q].messages : q \in Procs \ {p} },
   item     |-> UNION { tx[q].item     : q \in Procs \ {p} }]

RequestsOf(id) == { r \in borrowingrequest : r.item_id = id }
MessagesOf(id) == { m \in messages : SqlEq(m.item_id, id) }

\* ROLLBACK after a statement failed or the callback threw.
Rollback(p, status) ==
  /\ tx' = [tx EXCEPT ![p] = NoTx]
  /\ Finish(p, Reply(status))

\* db.tx(async t => ...): BEGIN
deleteItem(p) ==
  /\ Free(p)
  /\ \E id \in ItemIdInputs :
       Query(p, [NoReq EXCEPT !.op = "delete", !.item_id = id], "tx_select")
  /\ UNCHANGED <<item, borrowingrequest, borrowinghistory, messages, serial, tx>>
  /\ UNCHANGED <<authVars, codeVars>>

\* SELECT request_id FROM borrowingrequest WHERE item_id = $[id]
txSelect(p) ==
  /\ pc[p] = "tx_select"
  /\ LET requests == { r.request_id : r \in RequestsOf(req[p].item_id) } IN
       /\ req' = [req EXCEPT ![p].requestIds = requests]
       /\ pc' = [pc EXCEPT ![p] =
                   IF requests # {} THEN "tx_delete_history" ELSE "tx_delete_requests"]
  /\ UNCHANGED <<resp, concurrent, item, borrowingrequest, borrowinghistory, messages,
                 serial, tx>>
  /\ UNCHANGED <<authVars, codeVars>>

\* DELETE FROM borrowinghistory WHERE request_id = ANY($1)
txDeleteHistory(p) ==
  /\ pc[p] = "tx_delete_history"
  /\ LET target == borrowinghistory \cap req[p].requestIds IN
       /\ target \cap LockedBy(p).history = {}
       /\ tx' = [tx EXCEPT ![p].history = @ \cup target]
  /\ pc' = [pc EXCEPT ![p] = "tx_delete_requests"]
  /\ UNCHANGED <<req, resp, concurrent, item, borrowingrequest, borrowinghistory, messages,
                 serial>>
  /\ UNCHANGED <<authVars, codeVars>>

\* DELETE FROM borrowingrequest WHERE item_id = $[id]; borrowinghistory.request_id
\* REFERENCES borrowingrequest: a history row left for a deleted request fails the statement.
txDeleteRequests(p) ==
  /\ pc[p] = "tx_delete_requests"
  /\ LET target == { r.request_id : r \in RequestsOf(req[p].item_id) } IN
       /\ target \cap LockedBy(p).requests = {}
       /\ IF target \cap (borrowinghistory \ tx[p].history) # {}
            THEN Rollback(p, "server_error")
            ELSE /\ tx' = [tx EXCEPT ![p].requests = @ \cup target]
                 /\ pc' = [pc EXCEPT ![p] = "tx_delete_messages"]
                 /\ UNCHANGED resp
  /\ UNCHANGED <<req, concurrent, item, borrowingrequest, borrowinghistory, messages, serial>>
  /\ UNCHANGED <<authVars, codeVars>>

\* (variant of txDeleteMessages issued on db instead of t: it commits on its own)
txDeleteMessagesOutsideTx(p) ==
  /\ pc[p] = "tx_delete_messages"
  /\ LET target == { m.message_id : m \in MessagesOf(req[p].item_id) } IN
       /\ target \cap LockedBy(p).messages = {}
       /\ messages' = { m \in messages : m.message_id \notin target }
  /\ pc' = [pc EXCEPT ![p] = "tx_delete_item"]
  /\ UNCHANGED <<req, resp, concurrent, item, borrowingrequest, borrowinghistory, serial, tx>>
  /\ UNCHANGED <<authVars, codeVars>>

\* (variant of txDeleteMessages without the WHERE clause)
txDeleteMessagesAll(p) ==
  /\ pc[p] = "tx_delete_messages"
  /\ LET target == { m.message_id : m \in messages } IN
       /\ target \cap LockedBy(p).messages = {}
       /\ tx' = [tx EXCEPT ![p].messages = @ \cup target]
  /\ pc' = [pc EXCEPT ![p] = "tx_delete_item"]
  /\ UNCHANGED <<req, resp, concurrent, item, borrowingrequest, borrowinghistory, messages,
                 serial>>
  /\ UNCHANGED <<authVars, codeVars>>

\* DELETE FROM messages WHERE item_id = $[id]
txDeleteMessages(p) ==
  /\ pc[p] = "tx_delete_messages"
  /\ LET target == { m.message_id : m \in MessagesOf(req[p].item_id) } IN
       /\ target \cap LockedBy(p).messages = {}
       /\ tx' = [tx EXCEPT ![p].messages = @ \cup target]
  /\ pc' = [pc EXCEPT ![p] = "tx_delete_item"]
  /\ UNCHANGED <<req, resp, concurrent, item, borrowingrequest, borrowinghistory, messages,
                 serial>>
  /\ UNCHANGED <<authVars, codeVars>>

\* (variant of txDeleteItem without the rowCount check)
txDeleteItemUnchecked(p) ==
  /\ pc[p] = "tx_delete_item"
  /\ LET id == req[p].item_id
         target == {id} \cap item IN
       /\ target \cap LockedBy(p).item = {}
       /\ IF /\ target # {}
             /\ \/ { r \in RequestsOf(id) : r.request_id \notin tx[p].requests } # {}
                \/ { m \in MessagesOf(id) : m.message_id \notin tx[p].messages } # {}
            THEN Rollback(p, "server_error")
            ELSE /\ tx' = [tx EXCEPT ![p].item = @ \cup target]
                 /\ pc' = [pc EXCEPT ![p] = "tx_commit"]
                 /\ UNCHANGED resp
  /\ UNCHANGED <<req, concurrent, item, borrowingrequest, borrowinghistory, messages, serial>>
  /\ UNCHANGED <<authVars, codeVars>>

\* (variant of txDeleteItem against a schema whose item_id columns carry no REFERENCES)
txDeleteItemUnreferenced(p) ==
  /\ pc[p] = "tx_delete_item"
  /\ LET id == req[p].item_id
         target == {id} \cap item IN
       /\ target \cap LockedBy(p).item = {}
       /\ IF target = {}
            THEN Rollback(p, "not_found")
            ELSE /\ tx' = [tx EXCEPT ![p].item = @ \cup target]
                 /\ pc' = [pc EXCEPT ![p] = "tx_commit"]
                 /\ UNCHANGED resp
  /\ UNCHANGED <<req, concurrent, item, borrowingrequest, borrowinghistory, messages, serial>>
  /\ UNCHANGED <<authVars, codeVars>>

\* DELETE FROM item WHERE item_id = $[id]; borrowingrequest.item_id and messages.item_id
\* REFERENCE item: a request or message left for the item fails the statement.
\* rowCount === 0 throws "Item not found", which rolls back and is answered 404.
txDeleteItem(p) ==
  /\ pc[p] = "tx_delete_item"
  /\ LET id == req[p].item_id
         target == {id} \cap item IN
       /\ target \cap LockedBy(p).item = {}
       /\ IF target = {}
            THEN Rollback(p, "not_found")
          ELSE IF \/ { r \in RequestsOf(id) : r.request_id \notin tx[p].requests } # {}
                  \/ { m \in MessagesOf(id) : m.message_id \notin tx[p].messages } # {}
            THEN Rollback(p, "server_error")
            ELSE /\ tx' = [tx EXCEPT ![p].item = @ \cup target]
                 /\ pc' = [pc EXCEPT ![p] = "tx_commit"]
                 /\ UNCHANGED resp
  /\ UNCHANGED <<req, concurrent, item, borrowingrequest, borrowinghistory, messages, serial>>
  /\ UNCHANGED <<authVars, codeVars>>

\* COMMIT, then res.json({ message: "Item deleted successfully" })
txCommit(p) ==
  /\ pc[p] = "tx_commit"
  /\ borrowinghistory' = borrowinghistory \ tx[p].history
  /\ borrowingrequest' = { r \in borrowingrequest : r.request_id \notin tx[p].requests }
  /\ messages' = { m \in messages : m.message_id \notin tx[p].messages }
  /\ item' = item \ tx[p].item
  /\ tx' = [tx EXCEPT ![p] = NoTx]
  /\ Finish(p, Reply("deleted"))
  /\ UNCHANGED <<req, concurrent, serial>>
  /\ UNCHANGED <<authVars, codeVars>>

\* INSERT INTO borrowingrequest(user_id, item_id) ...: one statement in its own
\* transaction.  item_id REFERENCES item: the insert waits while another transaction
\* holds the item row deleted, and fails when the item is gone.  A failed insert still
\* consumes a request_id.
createBorrowRequest(p) ==
  /\ Free(p)
  /\ serial.request < MaxRequestId
  /\ \E id \in ItemIdInputs :
       /\ id \notin LockedBy(p).item
       /\ req' = [req EXCEPT ![p] = [NoReq EXCEPT !.op = "borrow", !.item_id = id]]
       /\ serial' = [serial EXCEPT !.request = @ + 1]
       /\ IF id \in item
            THEN /\ borrowingrequest' = borrowingrequest \cup
                        { [request_id |-> serial.request + 1, item_id |-> id] }
                 /\ Finish(p, Reply("created"))
            ELSE /\ UNCHANGED borrowingrequest
                 /\ Finish(p, Reply("server_error"))
  /\ concurrent' = { pr \in concurrent : p \notin pr }
  /\ UNCHANGED <<item, borrowinghistory, messages, tx>>
  /\ UNCHANGED <<authVars, codeVars>>

\* (variant of createMessage against a messages table whose item_id has no REFERENCES)
createMessageUnreferenced(p) ==
  /\ Free(p)
  /\ serial.message < MaxMessageId
  /\ \E id \in ItemIdInputs \cup {0} :
       /\ req' = [req EXCEPT ![p] = [NoReq EXCEPT !.op = "message", !.item_id = id]]
       /\ serial' = [serial EXCEPT !.message = @ + 1]
       /\ messages' = messages \cup
              { [message_id |-> serial.message + 1,
                 item_id |-> IF id = 0 THEN Null ELSE Some(id)] }
       /\ Finish(p, Reply("created"))
  /\ concurrent' = { pr \in concurrent : p \notin pr }
  /\ UNCHANGED <<item, borrowingrequest, borrowinghistory, tx>>
  /\ UNCHANGED <<authVars, codeVars>>

\* INSERT INTO messages(sender_id, receiver_id[, item_id], content) ...: item_id is
\* left NULL when the request carries none.
createMessage(p) ==
  /\ Free(p)
  /\ serial.message < MaxMessageId
  /\ \E id \in ItemIdInputs \cup {0} :
       /\ id \notin LockedBy(p).item
       /\ req' = [req EXCEPT ![p] = [NoReq EXCEPT !.op = "message", !.item_id = id]]
       /\ serial' = [serial EXCEPT !.message = @ + 1]
       /\ IF id = 0 \/ id \in item
            THEN /\ messages' = messages \cup
                        { [message_id |-> serial.message + 1,
                           item_id |-> IF id = 0 THEN Null ELSE Some(id)] }
                 /\ Finish(p, Reply("created"))
            ELSE /\ UNCHANGED messages
                 /\ Finish(p, Reply("server_error"))
  /\ concurrent' = { pr \in concurrent : p \notin pr }
  /\ UNCHANGED <<item, borrowingrequest, borrowinghistory, tx>>
  /\ UNCHANGED <<authVars, codeVars>>

NextItems ==
  \E p \in Procs :
       \/ deleteItem(p) \/ txSelect(p) \/ txDeleteHistory(p) \/ txDeleteRequests(p)
       \/ txDeleteMessages(p) \/ txDeleteItem(p) \/ txCommit(p)
       \/ createBorrowRequest(p) \/ createMessage(p)

SpecItems == Init /\ [][NextItems]_vars

\* DELETE /items/:id requests only: retirements racing with each other.
NextRetire ==
  \E p \in Procs :
       \/ deleteItem(p) \/ txSelect(p) \/ txDeleteHistory(p) \/ txDeleteRequests(p)
       \/ txDeleteMessages(p) \/ txDeleteItem(p) \/ txCommit(p)

SpecRetire == Init /\ [][NextRetire]_vars

TxSteps == {"tx_select", "tx_delete_history", "tx_delete_requests", "tx_delete_messages",
            "tx_delete_item", "tx_commit"}

\* (variant of txFail in which the deletes made so far are kept instead of rolled back)
txFailPersist(p) ==
  /\ pc[p] \in TxSteps
  /\ borrowinghistory' = borrowinghistory \ tx[p].history
  /\ borrowingrequest' = { r \in borrowingrequest : r.request_id \notin tx[p].requests }
  /\ messages' = { m \in messages : m.message_id \notin tx[p].messages }
  /\ item' = item \ tx[p].item
  /\ Rollback(p, "server_error")
  /\ UNCHANGED <<req, concurrent, serial>>
  /\ UNCHANGED <<authVars, codeVars>>

\* A statement of the transaction (BEGIN's successors up to COMMIT) is rejected by the
\* server: connection loss, cancelled or timed-out query.  db.tx issues ROLLBACK and
\* rejects; the error is not "Item not found", so .catch hands it to next(error).
txFail(p) ==
  /\ pc[p] \in TxSteps
  /\ Rollback(p, "server_error")
  /\ UNCHANGED <<req, concurrent, item, borrowingrequest, borrowinghistory, messages, serial>>
  /\ UNCHANGED <<authVars, codeVars>>

NextFaulty == NextItems \/ \E p \in Procs : txFail(p)

SpecFaulty == Init /\ [][NextFaulty]_vars

NextAuth ==
  \/ Tick
  \/ \E p \in Procs :
       \/ signup(p) \/ signupSelect(p) \/ signupInsert(p) \/ signupSend(p)
       \/ login(p) \/ loginSelect(p)
       \/ verifyEmailCode(p) \/ verifySelect(p) \/ verifyUpdate(p)
       \/ resendVerification(p) \/ resendSelect(p) \/ resendUpdate(p) \/ resendSend(p)

SpecAuth == Init /\ [][NextAuth]_vars

\* ------------------------------------------------------------- user records
MaxUsers == 5          \* createUser stops when app_user has this many rows
UserIdInputs == {4, 6}
\* req.body.email of PUT /users/:id: undefined (Null) or a string
UpdateEmailInputs == { Null, Some(<<"a", "@calvin.edu">>), Some(<<"b", "@gmail.com">>) }

\* INSERT INTO app_user(name, profile_picture) VALUES(...): the other columns take their
\* defaults, as in the rows of the schema script.
createUser(p) ==
  /\ Free(p)
  /\ Len(app_user) < MaxUsers
  /\ app_user' = Append(app_user,
                   [email |-> Null, verification_token |-> Null,
                    token_expires_at |-> Null, is_verified |-> FALSE])
  /\ superseded' = [i \in 1..(Len(app_user) + 1) |->
                      IF i <= Len(app_user) THEN superseded[i] ELSE {}]
  /\ req' = [req EXCEPT ![p] = [NoReq EXCEPT !.op = "create_user"]]
  /\ concurrent' = { pr \in concurrent : p \notin pr }
  /\ Finish(p, Reply("created"))
  /\ UNCHANGED now
  /\ UNCHANGED <<itemVars, codeVars>>

\* (variant of updateUser whose SET clause also resets the verification columns)
updateUserResetting(p) ==
  /\ Free(p)
  /\ \E id \in UserIdInputs, named \in BOOLEAN, email \in UpdateEmailInputs :
       /\ req' = [req EXCEPT ![p] = [NoReq EXCEPT !.op = "update_user", !.user_id = id,
                                                  !.email = IF email = Null THEN <<>>
                                                            ELSE email[1]]]
       /\ IF ~named /\ email = Null
            THEN Finish(p, Reply("bad_request")) /\ UNCHANGED app_user
          ELSE IF id \notin 1..Len(app_user)
            THEN Finish(p, Reply("server_error")) /\ UNCHANGED app_user
          ELSE /\ app_user' = [app_user EXCEPT ![id] =
                                 [@ EXCEPT !.is_verified = FALSE, !.verification_token = Null]]
               /\ Finish(p, Reply("updated"))
  /\ concurrent' = { pr \in concurrent : p \notin pr }
  /\ UNCHANGED <<now, superseded>>
  /\ UNCHANGED <<itemVars, codeVars>>

\* (variant of updateUser that marks the row unverified when it sets a new email)
updateUserReverifying(p) ==
  /\ Free(p)
  /\ \E id \in UserIdInputs, named \in BOOLEAN, email \in UpdateEmailInputs :
       /\ req' = [req EXCEPT ![p] = [NoReq EXCEPT !.op = "update_user", !.user_id = id,
                                                  !.email = IF email = Null THEN <<>>
                                                            ELSE email[1]]]
       /\ IF ~named /\ email = Null
            THEN Finish(p, Reply("bad_request")) /\ UNCHANGED app_user
          ELSE IF id \notin 1..Len(app_user)
            THEN Finish(p, Reply("server_error")) /\ UNCHANGED app_user
          ELSE IF email # Null /\ UsersByEmail(email[1]) \ {id} # {}
            THEN Finish(p, Reply("server_error")) /\ UNCHANGED app_user
          ELSE /\ app_user' = IF email = Null THEN app_user
                               ELSE [app_user EXCEPT ![id].email = email,
                                                     ![id].is_verified = FALSE]
               /\ Finish(p, Reply("updated"))
  /\ concurrent' = { pr \in concurrent : p \notin pr }
  /\ UNCHANGED <<now, superseded>>
  /\ UNCHANGED <<itemVars, codeVars>>

\* UPDATE app_user SET <name, profile_picture, email as provided> WHERE user_id = $[id]
\* RETURNING *: db.one rejects when no row comes back, and the statement fails when the
\* new email is another row's (UNIQUE).
updateUser(p) ==
  /\ Free(p)
  /\ \E id \in UserIdInputs, named \in BOOLEAN, email \in UpdateEmailInputs :
       /\ req' = [req EXCEPT ![p] = [NoReq EXCEPT !.op = "update_user", !.user_id = id,
                                                  !.email = IF email = Null THEN <<>>
                                                            ELSE email[1]]]
       /\ IF ~named /\ email = Null
            THEN Finish(p, Reply("bad_request")) /\ UNCHANGED app_user
          ELSE IF id \notin 1..Len(app_user)
            THEN Finish(p, Reply("server_error")) /\ UNCHANGED app_user
          ELSE IF email # Null /\ UsersByEmail(email[1]) \ {id} # {}
            THEN Finish(p, Reply("server_error")) /\ UNCHANGED app_user
          ELSE /\ app_user' = IF email = Null THEN app_user
                               ELSE [app_user EXCEPT ![id].email = email]
               /\ Finish(p, Reply("updated"))
  /\ concurrent' = { pr \in concurrent : p \notin pr }
  /\ UNCHANGED <<now, superseded>>
  /\ UNCHANGED <<itemVars, codeVars>>

\* Every route that writes.  The authentication requests run on slot 1, concurrently with
\* the user, item, borrowing-request and message requests on slot 2; the clock stands
\* still, app_user is capped at MaxUsers rows, the authentication requests pass their
\* input validation, PUT /users/:id sets no email outside LookupEmails and the item
\* requests are about item 1.
NextRoutes ==
  \/ (signup(1) /\ InFlight(1)')
  \/ signupSelect(1) \/ (Len(app_user) < MaxUsers /\ signupInsert(1)) \/ signupSend(1)
  \/ (login(1) /\ InFlight(1)') \/ loginSelect(1)
  \/ (verifyEmailCode(1) /\ InFlight(1)') \/ verifySelect(1) \/ verifyUpdate(1)
  \/ (resendVerification(1) /\ InFlight(1)')
  \/ resendSelect(1) \/ resendUpdate(1) \/ resendSend(1)
  \/ createUser(2)
  \/ (updateUser(2) /\ req'[2].email \in LookupEmails)
  \/ (deleteItem(2) /\ req'[2].item_id = 1)
  \/ txSelect(2) \/ txDeleteHistory(2) \/ txDeleteRequests(2)
  \/ txDeleteMessages(2) \/ txDeleteItem(2) \/ txCommit(2)
  \/ (createBorrowRequest(2) /\ req'[2].item_id = 1)
  \/ (createMessage(2) /\ req'[2].item_id = 1)

SpecRoutes == Init /\ [][NextRoutes]_vars

\* ------------------------------------------------- the password-based service
\* src/heyNeighborService.ts: app_user rows are (email, password_hash); there is no
\* verification column and no verification route.
MinPasswordLen == 6
PwEmailInputs == { <<>>, <<"a", "@calvin.edu">>, <<"A", "@Calvin.edu">>, <<"b", "@gmail.com">> }
PasswordInputs == { <<>>, <<"p", "w">>, <<"s", "e", "c", "r", "e", "t">>,
                    <<"w", "r", "o", "n", "g", "1">> }

\* String.prototype.toLowerCase on the symbols the inputs are made of
toLowerCase(s) ==
  [i \in DOMAIN s |-> CASE s[i] = "A" -> "a"
                        [] s[i] = "@Calvin.edu" -> "@calvin.edu"
                        [] OTHER -> s[i]]

\* bcrypt.hash(password, saltRounds) and bcrypt.compare(password, hash)
bcryptHash(password) == <<"$2b$10$", password>>
bcryptCompare(password, hash) == hash = bcryptHash(password)

\* INSERT INTO app_user (email, name, password_hash) VALUES ... of the schema script
PasswordSeedUsers ==
  << [email |-> Some(<<"alice", "@calvin.edu">>), password_hash |-> <<"$2b$10$dummyhash1">>],
     [email |-> Some(<<"bob", "@calvin.edu">>), password_hash |-> <<"$2b$10$dummyhash2">>],
     [email |-> Some(<<"charlie", "@calvin.edu">>), password_hash |-> <<"$2b$10$dummyhash3">>] >>

InitPassword ==
  /\ app_user = PasswordSeedUsers
  /\ item = SeedItems
  /\ borrowingrequest = SeedRequests
  /\ borrowinghistory = SeedHistory
  /\ messages = SeedMessages
  /\ serial = [request |-> 2, message |-> 3]
  /\ tx = [p \in Procs |-> NoTx]
  /\ now = 0
  /\ pc = [p \in Procs |-> "idle"]
  /\ req = [p \in Procs |-> NoReq]
  /\ resp = [p \in Procs |-> NoResp]
  /\ superseded = [i \in 1..3 |-> {}]
  /\ concurrent = {}
  /\ VerificationCode = <<>>

pwSignup(p) ==
  /\ Free(p)
  /\ \E email \in PwEmailInputs, password \in PasswordInputs, name \in NameInputs :
       LET rq == [NoReq EXCEPT !.op = "pw_signup", !.email = toLowerCase(email),
                               !.password = password] IN
       IF email = <<>> \/ ~endsWith(toLowerCase(email), CalvinSuffix)
         THEN Reject(p, rq, "domain_rejected")
       ELSE IF password = <<>> \/ Len(password) < MinPasswordLen
         THEN Reject(p, rq, "bad_request")
       ELSE IF name = <<>>
         THEN Reject(p, rq, "bad_request")
       ELSE Query(p, rq, "pw_signup_select")
  /\ UNCHANGED <<app_user, now, superseded>>
  /\ UNCHANGED <<itemVars, codeVars>>

pwSignupSelect(p) ==
  /\ pc[p] = "pw_signup_select"
  /\ IF UsersByEmail(req[p].email) # {}
       THEN Finish(p, Reply("already_registered"))
       ELSE /\ pc' = [pc EXCEPT ![p] = "pw_signup_insert"]
            /\ UNCHANGED resp
  /\ UNCHANGED <<app_user, now, req, superseded, concurrent>>
  /\ UNCHANGED <<itemVars, codeVars>>

\* email is UNIQUE: a duplicate makes the INSERT fail and the error goes to next().
pwSignupInsert(p) ==
  /\ pc[p] = "pw_signup_insert"
  /\ IF UsersByEmail(req[p].email) # {}
       THEN /\ Finish(p, Reply("server_error"))
            /\ UNCHANGED app_user
       ELSE /\ app_user' = Append(app_user,
                 [email |-> Some(req[p].email),
                  password_hash |-> bcryptHash(req[p].password)])
            /\ Finish(p, [status |-> "created", email |-> req[p].email])
  /\ UNCHANGED <<now, req, superseded, concurrent>>
  /\ UNCHANGED <<itemVars, codeVars>>

pwLogin(p) ==
  /\ Free(p)
  /\ \E email \in PwEmailInputs, password \in PasswordInputs :
       LET rq == [NoReq EXCEPT !.op = "pw_login", !.email = toLowerCase(email),
                               !.password = password] IN
       IF email = <<>> \/ password = <<>>
         THEN Reject(p, rq, "bad_request")
         ELSE Query(p, rq, "pw_login_select")
  /\ UNCHANGED <<app_user, now, superseded>>
  /\ UNCHANGED <<itemVars, codeVars>>

pwLoginSelect(p) ==
  /\ pc[p] = "pw_login_select"
  /\ LET found == UsersByEmail(req[p].email) IN
       IF found = {}
         THEN Finish(p, Reply("invalid_credentials"))
         ELSE \E u \in found :
                IF ~bcryptCompare(req[p].password, app_user[u].password_hash)
                  THEN Finish(p, Reply("invalid_credentials"))
                  ELSE Finish(p, [status |-> "login_ok", email |-> app_user[u].email[1]])
  /\ UNCHANGED <<app_user, now, req, superseded, concurrent>>
  /\ UNCHANGED <<itemVars, codeVars>>

NextPassword ==
  \E p \in Procs :
       \/ pwSignup(p) \/ pwSignupSelect(p) \/ pwSignupInsert(p)
       \/ pwLogin(p) \/ pwLoginSelect(p)

SpecPassword == InitPassword /\ [][NextPassword]_vars

\* ------------------------------------------- the VerificationCode table layout
\* The Azure Functions SendVerificationCode and VerifyCode: codes live in their own table,
\* each command is its own autocommitted statement on the function's connection.
ExpiryMinutes == 10    \* VerificationCodeExpiryMinutes ?? "10"
NextSpan == 899999     \* random.Next(100000, 999999): the upper bound is exclusive
CodeEmailInputs == { <<>>, <<"a", "@calvin.edu">> }

\* random.Next(100000, 999999).ToString(), the sample being r / RandDenom
GenerateVerificationCode(r) ==
  toString(CodeBase + MulDivMod(r, NextSpan, RandDenom)[1])

SubmittedCodes == { <<>> } \cup { GenerateVerificationCode(r) : r \in RandSamples }

\* the positions of the rows WHERE email = @email
CodeRowsOf(email) == { i \in 1..Len(VerificationCode) : VerificationCode[i].email = email }

SendVerificationCode(p) ==
  /\ Free(p)
  /\ \E email \in CodeEmailInputs :
       LET rq == [NoReq EXCEPT !.op = "send_code", !.email = email] IN
       IF email = <<>>
         THEN Reject(p, rq, "bad_request")
         ELSE \E r \in RandSamples :
                Query(p, [rq EXCEPT !.verificationCode = GenerateVerificationCode(r),
                                    !.expiresAt = now + ExpiryMinutes],
                      "send_delete")
  /\ UNCHANGED <<authVars, itemVars, codeVars>>

\* DELETE FROM VerificationCode WHERE email = @email
sendDelete(p) ==
  /\ pc[p] = "send_delete"
  /\ VerificationCode' = SelectSeq(VerificationCode, LAMBDA row : row.email # req[p].email)
  /\ pc' = [pc EXCEPT ![p] = "send_insert"]
  /\ UNCHANGED <<req, resp, concurrent, authVars, itemVars>>

\* INSERT INTO VerificationCode (email, code, expires_at) VALUES (...): created_at and
\* verified take their defaults CURRENT_TIMESTAMP and FALSE.
sendInsert(p) ==
  /\ pc[p] = "send_insert"
  /\ VerificationCode' =
       Append(VerificationCode,
              [email |-> req[p].email, code |-> req[p].verificationCode,
               created_at |-> now, expires_at |-> req[p].expiresAt, verified |-> FALSE])
  /\ pc' = [pc EXCEPT ![p] = "send_email"]
  /\ UNCHANGED <<req, resp, concurrent, authVars, itemVars>>

\* await SendVerificationEmail(...): a throw is caught and answered 500.
sendEmail(p) ==
  /\ pc[p] = "send_email"
  /\ \E delivered \in BOOLEAN :
       Finish(p, Reply(IF delivered THEN "sent" ELSE "server_error"))
  /\ UNCHANGED <<req, concurrent, authVars, itemVars, codeVars>>

VerifyCode(p) ==
  /\ Free(p)
  /\ \E email \in CodeEmailInputs, code \in SubmittedCodes :
       LET rq == [NoReq EXCEPT !.op = "verify_code", !.email = email, !.code = code] IN
       IF email = <<>> \/ code = <<>>
         THEN Reject(p, rq, "bad_request")
         ELSE Query(p, rq, "code_select")
  /\ UNCHANGED <<authVars, itemVars, codeVars>>

\* SELECT code, expires_at, verified FROM VerificationCode WHERE email = @email
\* ORDER BY created_at DESC, of which the first row is read; rows with equal created_at
\* come in either order.
verifyCodeSelect(p) ==
  /\ pc[p] = "code_select"
  /\ LET rows == CodeRowsOf(req[p].email) IN
       IF rows = {}
         THEN Finish(p, Reply("no_code"))
         ELSE \E i \in rows :
                /\ \A j \in rows : VerificationCode[j].created_at
                                       <= VerificationCode[i].created_at
                /\ IF now > VerificationCode[i].expires_at
                     THEN Finish(p, Reply("expired"))
                   ELSE IF req[p].code # VerificationCode[i].code
                     THEN Finish(p, Reply("invalid_code"))
                   ELSE /\ pc' = [pc EXCEPT ![p] = "code_update"]
                        /\ UNCHANGED resp
  /\ UNCHANGED <<req, concurrent, authVars, itemVars, codeVars>>

\* UPDATE VerificationCode SET verified = 1 WHERE email = @email
verifyCodeUpdate(p) ==
  /\ pc[p] = "code_update"
  /\ VerificationCode' = [i \in 1..Len(VerificationCode) |->
                            IF VerificationCode[i].email = req[p].email
                              THEN [VerificationCode[i] EXCEPT !.verified = TRUE]
                              ELSE VerificationCode[i]]
  /\ Finish(p, Reply("verified"))
  /\ UNCHANGED <<req, concurrent, authVars, itemVars>>

NextCodes ==
  \/ Tick
  \/ \E p \in Procs :
       \/ SendVerificationCode(p) \/ sendDelete(p) \/ sendInsert(p) \/ sendEmail(p)
       \/ VerifyCode(p) \/ verifyCodeSelect(p) \/ verifyCodeUpdate(p)

SpecCodes == Init /\ [][NextCodes]_vars

\* The authentication routes on slot 1 together with POST /users and PUT /users/:id on
\* slot 2, PUT /users/:id setting any email of UpdateEmailInputs; the clock stands still
\* and app_user is capped at MaxUsers rows.
NextAccounts ==
  \/ (signup(1) /\ InFlight(1)')
  \/ signupSelect(1) \/ (Len(app_user) < MaxUsers /\ signupInsert(1)) \/ signupSend(1)
  \/ (login(1) /\ InFlight(1)') \/ loginSelect(1)
  \/ (verifyEmailCode(1) /\ InFlight(1)') \/ verifySelect(1) \/ verifyUpdate(1)
  \/ (resendVerification(1) /\ InFlight(1)')
  \/ resendSelect(1) \/ resendUpdate(1) \/ resendSend(1)
  \/ createUser(2)
  \/ updateUser(2)

SpecAccounts == Init /\ [][NextAccounts]_vars

\* ------------------------------------------------ recovering an unverified account
\* Slot 1 first runs any sequence of authentication requests while the clock advances
\* freely (codes expire, notifications fail).  Then, from any state where the account is
\* there and unverified and no request is running, the client asks for a new code on
\* slot 2 (again if the notification failed), submits the code of the resend that was
\* answered sent on slot 1 before the clock reaches its expiry, and logs in.
RecoveryEmail == <<"a", "@calvin.edu">>
Unverified(email) == \E u \in UsersByEmail(email) : ~app_user[u].is_verified
RecoveryBegun == req[2].op # "none"
ResendAnswered == req[2].op = "resend" /\ pc[2] = "done" /\ resp[2].status = "sent"
LoggedIn == req[1].op = "login" /\ pc[1] = "done" /\ resp[1].status = "login_ok"

recoverTick ==
  /\ Tick
  /\ RecoveryBegun
       => \A u \in 1..Len(app_user) :
            app_user[u].token_expires_at # Null => app_user[u].token_expires_at[1] > now'

recoverResend ==
  /\ Free(1) /\ Free(2)
  /\ Unverified(RecoveryEmail)
  /\ ~ResendAnswered
  /\ resendVerification(2) /\ req'[2].email = RecoveryEmail

recoverVerify ==
  /\ ResendAnswered /\ Free(1)
  /\ Unverified(RecoveryEmail)
  /\ verifyEmailCode(1)
  /\ req'[1].email = RecoveryEmail /\ req'[1].code = req[2].verificationCode

recoverLogin ==
  /\ ResendAnswered /\ Free(1)
  /\ ~Unverified(RecoveryEmail)
  /\ ~LoggedIn
  /\ login(1) /\ req'[1].email = RecoveryEmail

NextRecovery ==
  \/ recoverTick
  \/ (~RecoveryBegun /\ signup(1) /\ InFlight(1)')
  \/ signupSelect(1) \/ signupInsert(1) \/ signupSend(1)
  \/ (~RecoveryBegun /\ verifyEmailCode(1) /\ InFlight(1)')
  \/ verifySelect(1) \/ verifyUpdate(1)
  \/ (~RecoveryBegun /\ resendVerification(1) /\ InFlight(1)')
  \/ resendSelect(1) \/ resendUpdate(1) \/ resendSend(1)
  \/ (~RecoveryBegun /\ login(1) /\ InFlight(1)')
  \/ loginSelect(1)
  \/ recoverResend
  \/ resendSelect(2) \/ resendUpdate(2) \/ resendSend(2)
  \/ recoverVerify
  \/ recoverLogin

\* A handler's pending callback runs once its query has answered, and the client of the
\* claim does submit the code and log in.
SpecRecovery ==
  /\ Init /\ [][NextRecovery]_vars
  /\ WF_vars(recoverVerify) /\ WF_vars(verifySelect(1)) /\ WF_vars(verifyUpdate(1))
  /\ WF_vars(recoverLogin) /\ WF_vars(loginSelect(1))

\* ------------------------------------------------------- the code generator
\* Values of the random source, as numerators over RandDenom: both ends of [0, 1), the
\* values next to them, and an even spread in between.
RandomGrid == 16
RandomInputs ==
  {0, 1, RandDenom - 2, RandDenom - 1}
    \cup { k * (RandDenom \div RandomGrid) : k \in 1..(RandomGrid - 1) }

\* Each slot holds the value its next Math.random() call returns.
InitRandom ==
  /\ item = SeedItems
  /\ borrowingrequest = SeedRequests
  /\ borrowinghistory = SeedHistory
  /\ messages = SeedMessages
  /\ serial = [request |-> 2, message |-> 3]
  /\ tx = [p \in Procs |-> NoTx]
  /\ app_user = SeedUsers
  /\ now = 0
  /\ pc = [p \in Procs |-> "idle"]
  /\ resp = [p \in Procs |-> NoResp]
  /\ superseded = [i \in 1..3 |-> {}]
  /\ concurrent = {}
  /\ VerificationCode = <<>>
  /\ req \in [Procs -> { [NoReq EXCEPT !.random = r] : r \in RandomInputs }]

\* const verificationCode = generateVerificationCode();
generateCode(p) ==
  /\ Free(p)
  /\ req[p].op = "none"
  /\ req' = [req EXCEPT ![p].op = "generate",
                        ![p].verificationCode = generateVerificationCode(req[p].random)]
  /\ UNCHANGED <<pc, resp, concurrent, authVars, itemVars, codeVars>>

NextRandom == \E p \in Procs : generateCode(p)

SpecRandom == InitRandom /\ [][NextRandom]_vars

\* ------------------------------------------------------------ one client's path
\* A single client going through README's flow, one request after the other: signup on
\* slot 1, resend on slot 2, verify with the signup's code on slot 1, verify with the
\* resend's code on slot 2, login on slot 2.  The notification transport delivers and
\* the clock does not run a stored code out.
NoAccountYet == Len(app_user) = Len(SeedUsers)
SignedUp == req[1].op = "signup" /\ pc[1] = "done" /\ resp[1].status = "pending_verification"
Resent == req[2].op = "resend" /\ pc[2] = "done" /\ resp[2].status = "sent"
TriedOld == req[1].op = "verify" /\ pc[1] = "done"
TriedNew == req[2].op = "verify" /\ pc[2] = "done"

TickWithinWindow ==
  /\ Tick
  /\ \A u \in 1..Len(app_user) :
       app_user[u].token_expires_at # Null => app_user[u].token_expires_at[1] > now'

NextScenario ==
  \/ TickWithinWindow
  \/ NoAccountYet /\ pc[2] = "idle" /\ signup(1)
  \/ signupSelect(1)
  \/ signupInsert(1)
  \/ signupSend(1) /\ resp'[1].status # "notification_failed"
  \/ SignedUp /\ pc[2] = "idle" /\ resendVerification(2) /\ req'[2].email = req[1].email
  \/ resendSelect(2)
  \/ resendUpdate(2)
  \/ resendSend(2) /\ resp'[2].status # "server_error"
  \/ SignedUp /\ Resent /\ verifyEmailCode(1)
       /\ req'[1].email = req[2].email /\ req'[1].code = req[1].verificationCode
  \/ verifySelect(1)
  \/ verifyUpdate(1)
  \/ TriedOld /\ Resent /\ verifyEmailCode(2)
       /\ req'[2].email = req[1].email /\ req'[2].code = req[2].verificationCode
  \/ verifySelect(2)
  \/ verifyUpdate(2)
  \/ TriedOld /\ TriedNew /\ login(2) /\ req'[2].email = req[1].email
  \/ loginSelect(2)

SpecScenario == Init /\ [][NextScenario]_vars

\* ===================================================================== claims
AccountOf(email) == UsersByEmail(email)

\* C1: in every reachable state an account with is_verified = true has
\* verification_token = NULL and token_expires_at = NULL.
C1_VerifiedHasNoCode ==
  \A u \in 1..Len(app_user) :
    app_user[u].is_verified =>
      app_user[u].verification_token = Null /\ app_user[u].token_expires_at = Null

\* C2: a resendVerification and a verifyEmailCode carrying the old code (the code the
\* resend found stored, different from the one it issues) that overlap on the same
\* account never both succeed.
C2_ResendAndOldCodeNeverBothWin ==
  \A p, q \in Procs :
    ~ ( /\ req[p].op = "resend" /\ resp[p].status = "sent"
        /\ req[q].op = "verify" /\ resp[q].status = "verified"
        /\ req[p].email = req[q].email
        /\ Overlapped(p, q)
        /\ SqlEq(req[p].user_token, req[q].code)
        /\ req[p].verificationCode # req[q].code )

\* C3: once a code has been overwritten by a later issuance, a verifyEmailCode lookup
\* with that code answers invalid-or-expired and does not go on to verify the account.
C3_SupersededCodeFails ==
  [][ \A p \in Procs :
        ( /\ pc[p] = "verify_select" /\ pc'[p] # "verify_select"
          /\ \E u \in AccountOf(req[p].email) : req[p].code \in superseded[u] )
        => ( pc'[p] = "done" /\ resp'[p].status = "invalid_or_expired" ) ]_vars

\* C4: after a verifyEmailCode(email, code) has answered verified, the lookup of a second
\* verifyEmailCode with the same email and code answers already-verified, not an error.
C4_ReverifyShortCircuits ==
  [][ \A p, q \in Procs :
        ( /\ p # q
          /\ req[p].op = "verify" /\ pc[p] = "done" /\ resp[p].status = "verified"
          /\ pc[q] = "verify_select" /\ pc'[q] # "verify_select"
          /\ req[q].email = req[p].email /\ req[q].code = req[p].code )
        => resp'[q].status = "already_verified" ]_vars

\* C5: login answers with the account exactly when an account with the email exists and
\* is verified at the lookup; an unverified account gets verification-required with its
\* email, an absent one invalid-credentials.
C5_LoginGate ==
  [][ \A p \in Procs :
        ( pc[p] = "login_select" /\ pc'[p] # "login_select" )
        => LET found == AccountOf(req[p].email) IN
             /\ pc'[p] = "done"
             /\ (resp'[p].status = "login_ok")
                  <=> (\E u \in found : app_user[u].is_verified)
             /\ (found = {}) => resp'[p] = Reply("invalid_credentials")
             /\ (found # {} /\ \A u \in found : ~app_user[u].is_verified)
                  => resp'[p] = [status |-> "verification_required", email |-> req[p].email] ]_vars

C5_Witness ==
  \E p, q \in Procs :
    /\ req[p].op = "login" /\ resp[p].status = "login_ok"
    /\ req[q].op = "login" /\ resp[q].status = "verification_required"

\* C6: every issued code expires at issuance time + 15 minutes, and a lookup with the
\* stored code passes only while NOW() is strictly before token_expires_at: at the
\* boundary NOW() = token_expires_at it answers invalid-or-expired.
C6_ExpiryBoundary ==
  [][ \A p \in Procs :
        /\ ( pc[p] = "verify_select" /\ pc'[p] # "verify_select" )
           => \A u \in AccountOf(req[p].email) :
                SqlEq(app_user[u].verification_token, req[p].code)
                => /\ (app_user[u].token_expires_at[1] <= now)
                        => resp'[p].status = "invalid_or_expired"
                   /\ (app_user[u].token_expires_at[1] > now)
                        => resp'[p].status # "invalid_or_expired"
        /\ ( pc[p] = "signup_insert" /\ pc'[p] = "signup_send" )
           => app_user'[Len(app_user')].token_expires_at = Some(now + 15)
        /\ ( pc[p] = "resend_update" /\ pc'[p] = "resend_send" )
           => app_user'[req[p].user_id].token_expires_at = Some(now + 15) ]_vars

C6_Witness ==
  \E p \in Procs :
    /\ req[p].op = "verify" /\ resp[p].status = "invalid_or_expired"
    /\ \E u \in AccountOf(req[p].email) :
         /\ SqlEq(app_user[u].verification_token, req[p].code)
         /\ app_user[u].token_expires_at = Some(now)

Tables == <<item, borrowingrequest, borrowinghistory, messages>>
\* p takes a step of its request.
Steps(p) == pc'[p] # pc[p] \/ req'[p] # req[p]
HistoryOf(id) == { h \in borrowinghistory : \E r \in RequestsOf(id) : r.request_id = h }

\* C7: deleteItem on an id that has no item row answers not-found, and no step of the
\* request changes the item, borrowingrequest, borrowinghistory or messages table.
C7_MissingItemNotFound ==
  [][ \A p \in Procs :
        ( req[p].op = "delete" /\ InFlight(p) /\ Steps(p) /\ req[p].item_id \notin item )
        => /\ Tables' = Tables
           /\ pc'[p] = "done" => resp'[p].status = "not_found" ]_vars

C7_Witness ==
  \E p \in Procs :
    /\ req[p].op = "delete" /\ req[p].item_id = 4
    /\ pc[p] = "done" /\ resp[p].status = "not_found"
    /\ Tables = <<SeedItems, SeedRequests, SeedHistory, SeedMessages>>

\* C8: deleteItem changes the tables in its commit step only, and that step removes
\* exactly the item row, the item's borrowingrequest rows, the borrowinghistory rows of
\* those requests and the messages whose item_id is the item; all other rows stay.
C8_CommitRemovesExactlyTheItem ==
  [][ \A p \in Procs :
        ( req[p].op = "delete" /\ InFlight(p) /\ Steps(p) )
        => IF pc'[p] = "done" /\ resp'[p].status = "deleted"
             THEN LET id == req[p].item_id IN
                    /\ id \in item
                    /\ item' = item \ {id}
                    /\ borrowingrequest' = borrowingrequest \ RequestsOf(id)
                    /\ borrowinghistory' = borrowinghistory \ HistoryOf(id)
                    /\ messages' = messages \ MessagesOf(id)
             ELSE Tables' = Tables ]_vars

C8_Witness ==
  \E p \in Procs :
    /\ req[p].op = "delete" /\ req[p].item_id = 1
    /\ pc[p] = "done" /\ resp[p].status = "deleted"
    /\ item = {2, 3}
    /\ borrowinghistory = {2}
    /\ \E m \in messages : m.item_id = Null

\* C9: the committed tables, which are all any reader's statement sees, never hold a
\* half-retired item: a request or message always references a present item and a
\* history row a present request, and no step removes a request, history row or
\* message of an item whose row stays.
Dangling ==
  \/ \E r \in borrowingrequest : r.item_id \notin item
  \/ \E m \in messages : m.item_id # Null /\ m.item_id[1] \notin item
  \/ \E h \in borrowinghistory : \A r \in borrowingrequest : r.request_id # h

C9_NeverHalfRetired ==
  /\ [] ~Dangling
  /\ [][ \A id \in item' \cap item :
           /\ RequestsOf(id) \subseteq borrowingrequest'
           /\ HistoryOf(id) \subseteq borrowinghistory'
           /\ MessagesOf(id) \subseteq messages' ]_vars

C9_Witness ==
  \E p \in Procs :
    /\ pc[p] = "tx_commit" /\ req[p].item_id = 1
    /\ tx[p].history # {} /\ tx[p].requests # {} /\ tx[p].messages # {} /\ tx[p].item = {1}
    /\ 1 \in item /\ RequestsOf(1) # {} /\ MessagesOf(1) # {}

\* C10: once a deleteItem(id) has answered deleted, a later deleteItem(id) answers
\* not-found at its terminal delete and changes no table.
C10_SecondRetirementNotFound ==
  [][ \A p, q \in Procs :
        ( /\ p # q
          /\ req[p].op = "delete" /\ pc[p] = "done" /\ resp[p].status = "deleted"
          /\ req[q].op = "delete" /\ req[q].item_id = req[p].item_id
          /\ InFlight(q) /\ Steps(q) )
        => /\ Tables' = Tables
           /\ pc'[q] = "done" => resp'[q].status = "not_found" ]_vars

C10_Witness ==
  \E p, q \in Procs :
    /\ p # q /\ ~Overlapped(p, q)
    /\ req[p].op = "delete" /\ pc[p] = "done" /\ resp[p].status = "deleted"
    /\ req[q].op = "delete" /\ pc[q] = "done" /\ resp[q].status = "not_found"
    /\ req[q].item_id = req[p].item_id

\* C11: two deleteItem transactions for the same item that overlap in time: no row is
\* deleted by both; while the item row exists the one that ends first answers deleted and
\* removes exactly what a single retirement removes; the other then changes nothing and
\* answers not-found.
SameRetirement(p, q) ==
  /\ Overlapped(p, q)
  /\ req[p].op = "delete" /\ req[q].op = "delete"
  /\ req[p].item_id = req[q].item_id

C11_ConcurrentRetirements ==
  /\ [] \A p, q \in Procs :
          p # q => /\ tx[p].history \cap tx[q].history = {}
                   /\ tx[p].requests \cap tx[q].requests = {}
                   /\ tx[p].messages \cap tx[q].messages = {}
                   /\ tx[p].item \cap tx[q].item = {}
  /\ [] \A p, q \in Procs :
          ( SameRetirement(p, q) /\ pc[p] = "done" /\ pc[q] = "done"
            /\ resp[p].status = "deleted" ) => resp[q].status = "not_found"
  /\ [][ \A p, q \in Procs :
          LET id == req[p].item_id IN
          /\ ( SameRetirement(p, q) /\ InFlight(p) /\ InFlight(q)
               /\ id \in item /\ pc'[p] = "done" )
             => /\ resp'[p].status = "deleted"
                /\ item' = item \ {id}
                /\ borrowingrequest' = borrowingrequest \ RequestsOf(id)
                /\ borrowinghistory' = borrowinghistory \ HistoryOf(id)
                /\ messages' = messages \ MessagesOf(id)
          /\ ( SameRetirement(p, q) /\ pc[p] = "done" /\ resp[p].status = "deleted"
               /\ InFlight(q) /\ Steps(q) )
             => /\ Tables' = Tables
                /\ pc'[q] = "done" => resp'[q].status = "not_found" ]_vars

\* The loser read the item's requests before the winner committed.
C11_Witness ==
  \E p, q \in Procs :
    /\ SameRetirement(p, q) /\ req[p].item_id = 1
    /\ pc[p] = "done" /\ resp[p].status = "deleted"
    /\ pc[q] = "done" /\ resp[q].status = "not_found"
    /\ req[q].requestIds # {}
    /\ Tables = <<{2, 3}, { r \in SeedRequests : r.item_id # 1 }, {2},
                  { m \in SeedMessages : m.item_id # Some(1) }>>

\* C12: a deleteItem that does not answer deleted (a statement failed, the transaction was
\* cancelled, or the terminal delete matched no row) persists none of its deletes: no step
\* of it changes a table and its pending deletes are discarded.  It answers not-found
\* only when the terminal DELETE FROM item met no item row, and a generic failure otherwise.
C12_FailureRollsBack ==
  [][ \A p \in Procs :
        ( req[p].op = "delete" /\ InFlight(p) /\ Steps(p)
          /\ ~(pc'[p] = "done" /\ resp'[p].status = "deleted") )
        => /\ Tables' = Tables
           /\ pc'[p] = "done"
                => /\ tx'[p] = NoTx
                   /\ resp'[p].status \in {"not_found", "server_error"}
                   /\ resp'[p].status = "not_found"
                        => (pc[p] = "tx_delete_item" /\ req[p].item_id \notin item) ]_vars

\* A retirement of item 1 failed after it had read the item's requests; every seeded row
\* is still there.
C12_Witness ==
  \E p \in Procs :
    /\ req[p].op = "delete" /\ req[p].item_id = 1 /\ req[p].requestIds # {}
    /\ pc[p] = "done" /\ resp[p].status = "server_error"
    /\ tx[p] = NoTx
    /\ SeedItems \subseteq item /\ SeedRequests \subseteq borrowingrequest
    /\ SeedHistory \subseteq borrowinghistory /\ SeedMessages \subseteq messages

\* C13: the lookup of a verifyEmailCode answers with one and the same response when the
\* email has no account, when the account stores no code, when the code differs from the
\* stored one, and when the stored code is the one sent but has expired.
VerifyFails(email, code) ==
  \/ AccountOf(email) = {}
  \/ \E u \in AccountOf(email) :
        \/ app_user[u].verification_token = Null
        \/ app_user[u].verification_token # Some(code)
        \/ app_user[u].token_expires_at = Null
        \/ app_user[u].token_expires_at[1] <= now

C13_OneFailureResponse ==
  [][ \A p \in Procs :
        ( pc[p] = "verify_select" /\ pc'[p] # "verify_select"
          /\ VerifyFails(req[p].email, req[p].code) )
        => /\ pc'[p] = "done"
           /\ resp'[p] = [status |-> "invalid_or_expired", email |-> <<>>]
           /\ app_user' = app_user ]_vars

\* One request failed on an expired correct code, the other on a wrong code, and the
\* two responses are equal.
C13_Witness ==
  \E p, q \in Procs, u \in 1..Len(app_user) :
    /\ p # q
    /\ req[p].op = "verify" /\ pc[p] = "done"
    /\ req[q].op = "verify" /\ pc[q] = "done"
    /\ resp[p] = resp[q] /\ resp[p].status = "invalid_or_expired"
    /\ u \in AccountOf(req[p].email) /\ u \in AccountOf(req[q].email)
    /\ ~app_user[u].is_verified
    /\ app_user[u].verification_token = Some(req[p].code)
    /\ app_user[u].token_expires_at[1] <= now
    /\ app_user[u].verification_token # Some(req[q].code)

C15_FailedSendKeepsAccount ==
  /\ [] \A p \in Procs :
          resp[p].status = "notification_failed"
          => ( req[p].op = "signup" /\ AccountOf(req[p].email) # {} )
  /\ [][ \A p \in Procs :
          /\ ( pc[p] = "signup_send" /\ pc'[p] # "signup_send" )
             => /\ app_user' = app_user
                /\ AccountOf(req[p].email) # {}
                /\ resp'[p].status # "server_error"
          /\ ( pc[p] = "resend_select" /\ pc'[p] # "resend_select"
               /\ \E u \in AccountOf(req[p].email) : ~app_user[u].is_verified )
             => /\ pc'[p] = "resend_update"
                /\ req'[p].user_id \in AccountOf(req[p].email)
                /\ req'[p].verificationCode \in CodeInputs \ {<<>>}
          /\ ( pc[p] = "resend_update" /\ pc'[p] # "resend_update" )
             => /\ app_user'[req[p].user_id] =
                     [app_user[req[p].user_id] EXCEPT
                        !.verification_token = Some(req[p].verificationCode),
                        !.token_expires_at = Some(now + 15)]
                /\ \A u \in 1..Len(app_user) :
                     u # req[p].user_id => app_user'[u] = app_user[u] ]_vars

\* A signup ended in the notification failure, a resend for the same email was answered
\* sent, and the account is unverified and holds the resend's code, not the signup's.
C15_Witness ==
  \E p, q \in Procs, u \in 1..Len(app_user) :
    /\ req[p].op = "signup" /\ pc[p] = "done" /\ resp[p].status = "notification_failed"
    /\ req[q].op = "resend" /\ pc[q] = "done" /\ resp[q].status = "sent"
    /\ ~Overlapped(p, q)
    /\ req[q].email = req[p].email /\ u \in AccountOf(req[p].email)
    /\ ~app_user[u].is_verified
    /\ app_user[u].verification_token = Some(req[q].verificationCode)
    /\ req[q].verificationCode # req[p].verificationCode
    /\ app_user[u].token_expires_at # Null

VerificationState(row) ==
  <<row.verification_token, row.token_expires_at, row.is_verified>>

C18_OnlyAuthWritesVerification ==
  [][ /\ Len(app_user') >= Len(app_user)
      /\ \A u \in 1..Len(app_user) :
           VerificationState(app_user'[u]) # VerificationState(app_user[u])
           => \E p \in Procs :
                /\ pc[p] \in {"resend_update", "verify_update"} /\ pc'[p] # pc[p]
                /\ req[p].user_id = u
      /\ \A u \in (Len(app_user) + 1)..Len(app_user') :
           VerificationState(app_user'[u]) # <<Null, Null, FALSE>>
           => \E p \in Procs : pc[p] = "signup_insert" /\ pc'[p] = "signup_send"
      /\ \A p \in Procs :
           ( req'[p].op \in {"create_user", "update_user", "login", "delete", "borrow",
                             "message"}
             /\ (pc'[p] # pc[p] \/ req'[p] # req[p] \/ resp'[p] # resp[p]) )
           => \A u \in 1..Len(app_user) :
                VerificationState(app_user'[u]) = VerificationState(app_user[u]) ]_vars

\* updateUser has answered for the verified account's row, a createUser row follows it,
\* and the account still shows the state verifyEmailCode left.
C18_Witness ==
  /\ req[2].op = "update_user" /\ resp[2].status = "updated" /\ req[2].user_id = 4
  /\ req[1].op = "login" /\ resp[1].status = "login_ok"
  /\ Len(app_user) = 5
  /\ app_user[5].email = Null
  /\ VerificationState(app_user[4]) = <<Null, Null, TRUE>>

\* C19: in the password-based service a login is answered with the account only when
\* the account's email has been verified.
EmailVerified(row) == "is_verified" \in DOMAIN row /\ row.is_verified

C19_PasswordLoginGated ==
  [][ \A p \in Procs :
        ( pc[p] = "pw_login_select" /\ resp'[p].status = "login_ok" )
        => \E u \in AccountOf(req[p].email) : EmailVerified(app_user[u]) ]_vars

\* C20: a code is single-use: no two verifyEmailCode requests carrying the same email
\* and code are both answered verified.
C20_CodeVerifiesOnce ==
  \A p, q \in Procs :
    ( /\ p # q
      /\ req[p].op = "verify" /\ req[q].op = "verify"
      /\ req[p].email = req[q].email /\ req[p].code = req[q].code
      /\ resp[p].status = "verified" )
    => resp[q].status # "verified"

\* C21: when no SendVerificationCode is between its DELETE and its INSERT, the
\* VerificationCode table holds at most one row per email.
C21_OneCodeRowPerEmail ==
  (\A p \in Procs : pc[p] \notin {"send_delete", "send_insert"})
  => \A email \in CodeEmailInputs : Cardinality(CodeRowsOf(email)) <= 1

\* C22: whenever verifyEmailCode's UPDATE sets is_verified = true on a row, that row's
\* stored verification_token equals the code the request submitted and the server clock
\* is strictly before the row's token_expires_at at that instant.
C22_VerifiedWriteIsConditioned ==
  [][ \A p \in Procs :
        (pc[p] = "verify_update" /\ pc'[p] # "verify_update")
        => /\ SqlEq(app_user[req[p].user_id].verification_token, req[p].code)
           /\ SqlGt(app_user[req[p].user_id].token_expires_at, now) ]_vars

\* C23: inside a deleteItem transaction the deletes run in the order borrowinghistory,
\* borrowingrequest, messages, item, and at every step no row is deleted while a row that
\* references it is still there: no deleted request has a history row left, and a deleted
\* item has no request or message left.
C23_DependencyOrder ==
  \A p \in Procs :
    /\ pc[p] \in {"tx_select", "tx_delete_history"}
         => tx[p].history = {} /\ tx[p].requests = {} /\ tx[p].messages = {} /\ tx[p].item = {}
    /\ pc[p] = "tx_delete_requests"
         => tx[p].requests = {} /\ tx[p].messages = {} /\ tx[p].item = {}
    /\ pc[p] = "tx_delete_messages" => tx[p].messages = {} /\ tx[p].item = {}
    /\ pc[p] = "tx_delete_item" => tx[p].item = {}
    /\ tx[p].requests \cap (borrowinghistory \ tx[p].history) = {}
    /\ \A id \in tx[p].item :
         /\ \A r \in RequestsOf(id) : r.request_id \in tx[p].requests
         /\ \A m \in MessagesOf(id) : m.message_id \in tx[p].messages

C23_Witness ==
  \E p \in Procs :
    /\ pc[p] = "tx_commit"
    /\ tx[p].history # {} /\ tx[p].requests # {} /\ tx[p].messages # {} /\ tx[p].item # {}
    /\ \E m \in MessagesOf(req[p].item_id) : m.message_id > 2

\* the number a decimal digit string denotes
RECURSIVE DecimalValue(_)
DecimalValue(d) ==
  IF d = <<>> THEN 0 ELSE 10 * DecimalValue(SubSeq(d, 1, Len(d) - 1)) + d[Len(d)]

\* C24: for every value of the random source, generateVerificationCode returns a string
\* of exactly 6 decimal digits without a leading zero, whose value is in 100000..999999.
C24_SixDigitCode ==
  \A p \in Procs :
    req[p].op = "generate"
    => LET code == req[p].verificationCode IN
         /\ Len(code) = 6
         /\ \A i \in 1..6 : code[i] \in 0..9
         /\ code[1] # 0
         /\ DecimalValue(code) \in 100000..999999

\* both bounds are attained
C24_Witness ==
  /\ req[1].op = "generate" /\ DecimalValue(req[1].verificationCode) = 100000
  /\ req[2].op = "generate" /\ DecimalValue(req[2].verificationCode) = 999999

\* C25: every account for which login can succeed (a verified row with an email) has an
\* email that ends with the allowed domain.
C25_LoginOnlyForAllowedDomain ==
  \A i \in 1..Len(app_user) :
    (app_user[i].is_verified /\ app_user[i].email # Null)
    => endsWith(app_user[i].email[1], CalvinSuffix)

\* C26: at most one app_user row exists per email, and a finished signup for an email
\* that has an account which this request did not create was answered already-registered.
C26_OneAccountPerEmail ==
  /\ \A i, j \in 1..Len(app_user) :
       (app_user[i].email # Null /\ app_user[i].email = app_user[j].email) => i = j
  /\ \A p \in Procs :
       ( /\ req[p].op = "signup" /\ pc[p] = "done"
         /\ AccountOf(req[p].email) # {}
         /\ resp[p].status \notin {"pending_verification", "notification_failed"} )
       => resp[p].status = "already_registered"

\* C27: once deleteItem(id) has answered deleted, no borrowingrequest, borrowinghistory
\* or messages row references item id, whatever createBorrowRequest and createMessage
\* requests were committed between the transaction's steps; and a deleteItem that ends
\* with any other answer has deleted nothing.
C27_NothingLeftAfterDeleted ==
  /\ [] \A p \in Procs :
          ( req[p].op = "delete" /\ pc[p] = "done" /\ resp[p].status = "deleted" )
          => /\ req[p].item_id \notin item
             /\ RequestsOf(req[p].item_id) = {}
             /\ MessagesOf(req[p].item_id) = {}
             /\ \A h \in borrowinghistory : \E r \in borrowingrequest : r.request_id = h
  /\ [][ \A p \in Procs :
          ( /\ req[p].op = "delete" /\ pc[p] # "done" /\ pc'[p] = "done"
            /\ resp'[p].status # "deleted" )
          => /\ Tables' = Tables
             /\ tx'[p] = NoTx ]_vars

\* a retirement answered deleted that removed a request created after its SELECT
C27_Witness ==
  \E p, q \in Procs :
    /\ req[p].op = "delete" /\ pc[p] = "done" /\ resp[p].status = "deleted"
    /\ req[p].item_id = 1 /\ req[p].requestIds = {1}
    /\ req[q].op = "borrow" /\ req[q].item_id = 1 /\ resp[q].status = "created"
    /\ serial.request = 3

\* C28: a row whose is_verified is true stays in app_user with is_verified true at every
\* later step, and a login that answers verification-required read a row that is
\* unverified.
C28_VerifiedStaysVerified ==
  [][ /\ \A u \in 1..Len(app_user) :
           app_user[u].is_verified
           => u <= Len(app_user') /\ app_user'[u].is_verified
      /\ \A p \in Procs :
           ( pc[p] = "login_select" /\ pc'[p] = "done"
             /\ resp'[p].status = "verification_required" )
           => \E u \in AccountOf(req[p].email) : ~app_user[u].is_verified ]_vars

\* the verified account 4 was given another email, its old email was signed up again,
\* and login with the old email answers verification-required for the new account
C28_Witness ==
  /\ Len(app_user) >= 5
  /\ app_user[4].is_verified /\ app_user[4].email = Some(<<"b", "@gmail.com">>)
  /\ \E u \in 5..Len(app_user) :
       app_user[u].email = Some(<<"a", "@calvin.edu">>) /\ ~app_user[u].is_verified
  /\ req[1].op = "login" /\ resp[1].status = "verification_required"

\* C29: no step of a verifyEmailCode request other than its UPDATE changes app_user, and
\* a request that reached its UPDATE ends verified: a request that ends in an error has
\* left every account's stored code, expiry and is_verified as they were.
C29_FailedVerifyChangesNothing ==
  [][ \A p \in Procs :
        /\ ( req'[p].op = "verify" /\ pc[p] # "verify_update"
             /\ (pc'[p] # pc[p] \/ req'[p] # req[p] \/ resp'[p] # resp[p]) )
           => app_user' = app_user
        /\ ( pc[p] = "verify_update" /\ pc'[p] # "verify_update" )
           => pc'[p] = "done" /\ resp'[p].status = "verified" ]_vars

\* a wrong code was answered invalid-or-expired, and the account still holds its
\* unexpired code
C29_Witness ==
  \E p \in Procs, u \in 1..Len(app_user) :
    /\ req[p].op = "verify" /\ pc[p] = "done" /\ resp[p].status = "invalid_or_expired"
    /\ u \in AccountOf(req[p].email)
    /\ ~app_user[u].is_verified
    /\ app_user[u].verification_token \notin {Null, Some(req[p].code)}
    /\ SqlGt(app_user[u].token_expires_at, now)
    /\ superseded[u] = {}

\* C30: whenever a resendVerification for an existing unverified account has been
\* answered, whatever happened to the account before (expired code, undelivered signup
\* mail, failed attempts), submitting the newly issued code before its expiry leads to the
\* account being verified and login succeeding.
C30_ResendRecovers ==
  ResendAnswered ~> (LoggedIn /\ ~Unverified(RecoveryEmail))

\* a recovery completed after the clock had advanced, the resend having replaced an
\* earlier code of the account
C30_Witness ==
  /\ LoggedIn /\ ResendAnswered /\ ~Unverified(RecoveryEmail)
  /\ now >= TokenTTL
  /\ \E u \in UsersByEmail(RecoveryEmail) : superseded[u] # {}

====
